---- MODULE Spec2Model ----
(***************************************************************************)
(* Retrieval fusion and reranking core of HealthSecure's ai-service:       *)
(*   hybrid_retriever.py   BM25Retriever, ColBERTRetriever,                *)
(*                         ReciprocalRankFusion, UltimateHybridRetriever   *)
(*   advanced_reranker.py  FlashRankReranker, MixedBreadReranker,          *)
(*                         KeywordBooster, AdvancedHybridReranker          *)
(*                                                                         *)
(* Every behaviour exercises one entry point, named by the variable call:  *)
(*   "fuse"    one call of ReciprocalRankFusion.fuse                       *)
(*   "rerank"  create_advanced_reranker(...) followed by one rerank(...)   *)
(*   "search"  one run of the coroutine UltimateHybridRetriever.search     *)
(*   "index"   BM25Retriever.index_documents in one thread while another   *)
(*             thread runs BM25Retriever.search                            *)
(* Scores are exact: an rrf_score is an integer numerator over RrfDen, a   *)
(* reranker score is a normalised fraction <<n, d>>; Python's float        *)
(* rounding is not modelled.                                               *)
(***************************************************************************)
EXTENDS Integers, Sequences, FiniteSets, TLC

VARIABLES
    call,             \* the entry point this behaviour exercises
    pc,               \* position of the caller / of the search coroutine
    \* ---- ReciprocalRankFusion.fuse and UltimateHybridRetriever.search
    dense_results,    \* list handed to fuse / local of search
    bm25_results,
    colbert_results,
    fused_results,    \* what fuse / search returned
    \* ---- UltimateHybridRetriever.search
    srch,             \* arguments, collaborators and bookkeeping of search
    \* ---- AdvancedHybridReranker
    cfg,              \* constructor arguments and the installed libraries
    reranker,         \* the constructed object: its scorer handles
    req,              \* arguments of rerank: query, documents, top_k
    resp,             \* outcome of rerank: results, scorer calls, raised
    answers,          \* what the scorers answered during rerank
    \* ---- BM25Retriever shared between an indexing and a searching thread
    bm25,             \* the object's fields: BM25Okapi, documents, bm25_index
    ixt,              \* the thread inside index_documents
    sxt,              \* the thread inside search
    colbert_retriever \* the ColBERTRetriever object

vars == <<call, pc, dense_results, bm25_results, colbert_results, fused_results,
          srch, cfg, reranker, req, resp, answers, bm25, ixt, sxt, colbert_retriever>>

fuseVars   == <<dense_results, bm25_results, colbert_results, fused_results>>
rerankVars == <<cfg, reranker, req, resp, answers>>
indexVars  == <<bm25, ixt, sxt, colbert_retriever>>

(***************************************************************************)
(* Bounds of the model.                                                    *)
(***************************************************************************)
MaxLen        == 3    \* longest dense / BM25 list handed to fuse
MaxColbertLen == 1    \* longest late-interaction list handed to fuse
MaxTopK       == 2    \* largest top_k passed to rerank and search

Max(a, b) == IF a >= b THEN a ELSE b
Min(a, b) == IF a <= b THEN a ELSE b

\* Python's None for an integer-valued field (ranks start at 1).
None == 0

(***************************************************************************)
(* The corpus: the three candidates of the repository's own test data.     *)
(***************************************************************************)
ChunkIds == {"d1", "d2", "d3"}

Content(id) ==
    CASE id = "d1" -> "Patient blood pressure is 145/92 mmHg, elevated hypertension."
      [] id = "d2" -> "Heart rate measured at 88 bpm, within normal range."
      [] OTHER     -> "The weather is sunny today with clear skies."

\* Sequences over S of length 0..n.
RECURSIVE SeqsUpTo(_, _)
SeqsUpTo(S, n) ==
    IF n = 0 THEN {<<>>}
    ELSE LET shorter == SeqsUpTo(S, n - 1)
         IN  shorter \cup {Append(s, x) : s \in {t \in shorter : Len(t) = n - 1}, x \in S}

Take(s, n) == SubSeq(s, 1, Min(Max(n, 0), Len(s)))   \* s[:n] for n >= 0

Ids(list) == {list[i].chunk_id : i \in 1..Len(list)}

(***************************************************************************)
(* ReciprocalRankFusion                                                    *)
(***************************************************************************)
K == 60

\* weights in tenths: {"dense": 0.4, "bm25": 0.3, "colbert": 0.3}
DefaultWeights == [dense |-> 4, bm25 |-> 3, colbert |-> 3]

\* the deepest rank any list reaches
MaxRank == Max(MaxLen, MaxColbertLen)

RECURSIVE RankProd(_)
RankProd(n) == IF n = 0 THEN 1 ELSE (K + n) * RankProd(n - 1)

\* rrf_score is kept as the numerator of a fraction over RrfDen.
RrfDen == 10 * RankProd(MaxRank)

\* the term without the reciprocal
RrfTermByRank(w, rank) == w * (K + rank)

\* weights[t] * (1.0 / (self.k + rank)), in units of 1/RrfDen
RrfTerm(w, rank) == w * (RankProd(MaxRank) \div (K + rank))

Position(all, id) ==
    IF \E i \in 1..Len(all) : all[i].chunk_id = id
    THEN CHOOSE i \in 1..Len(all) : all[i].chunk_id = id
    ELSE 0

NewFused(doc) ==
    [chunk_id |-> doc.chunk_id, content |-> doc.content, metadata |-> doc.metadata,
     rrf_score |-> 0, dense_score |-> 0, bm25_score |-> 0, colbert_score |-> 0,
     dense_rank |-> None, bm25_rank |-> None, colbert_rank |-> None]

\* a loop body that adds the retriever's raw score instead of the rank term
FuseDenseRaw(all, doc, rank, weights) ==
    LET i    == Position(all, doc.chunk_id)
        all1 == IF i = 0
                THEN Append(all, [NewFused(doc) EXCEPT !.dense_score = doc.similarity,
                                                       !.dense_rank = rank])
                ELSE all
        j    == IF i = 0 THEN Len(all1) ELSE i
    IN  [all1 EXCEPT ![j].rrf_score = @ + weights.dense * doc.similarity]

\* One iteration of the loop over dense_results (lines 204-221).
FuseDense(all, doc, rank, weights) ==
    LET i    == Position(all, doc.chunk_id)
        all1 == IF i = 0
                THEN Append(all, [NewFused(doc) EXCEPT !.dense_score = doc.similarity,
                                                       !.dense_rank = rank])
                ELSE all
        j    == IF i = 0 THEN Len(all1) ELSE i
    IN  [all1 EXCEPT ![j].rrf_score = @ + RrfTerm(weights.dense, rank)]

\* the loop body without the membership test: a record per sighting
FuseBm25BugDrop(all, doc, rank, weights) ==
    LET all1 == Append(all, [NewFused(doc) EXCEPT !.bm25_score = doc.bm25_score,
                                                  !.bm25_rank = rank])
    IN  [all1 EXCEPT ![Len(all1)].rrf_score = @ + RrfTerm(weights.bm25, rank)]

\* One iteration of the loop over bm25_results (lines 224-244).
FuseBm25(all, doc, rank, weights) ==
    LET i    == Position(all, doc.chunk_id)
        all1 == IF i = 0
                THEN Append(all, [NewFused(doc) EXCEPT !.bm25_score = doc.bm25_score,
                                                       !.bm25_rank = rank])
                ELSE [all EXCEPT ![i].bm25_score = doc.bm25_score, ![i].bm25_rank = rank]
        j    == IF i = 0 THEN Len(all1) ELSE i
    IN  [all1 EXCEPT ![j].rrf_score = @ + RrfTerm(weights.bm25, rank)]

\* a loop body that assigns the rank term instead of adding it
FuseColbertOverwrite(all, doc, rank, weights) ==
    LET i    == Position(all, doc.chunk_id)
        all1 == IF i = 0
                THEN Append(all, [NewFused(doc) EXCEPT !.colbert_score = doc.colbert_score,
                                                       !.colbert_rank = rank])
                ELSE [all EXCEPT ![i].colbert_score = doc.colbert_score,
                                 ![i].colbert_rank = rank]
        j    == IF i = 0 THEN Len(all1) ELSE i
    IN  [all1 EXCEPT ![j].rrf_score = RrfTerm(weights.colbert, rank)]

\* One iteration of the loop over colbert_results (lines 247-267).
FuseColbert(all, doc, rank, weights) ==
    LET i    == Position(all, doc.chunk_id)
        all1 == IF i = 0
                THEN Append(all, [NewFused(doc) EXCEPT !.colbert_score = doc.colbert_score,
                                                       !.colbert_rank = rank])
                ELSE [all EXCEPT ![i].colbert_score = doc.colbert_score,
                                 ![i].colbert_rank = rank]
        j    == IF i = 0 THEN Len(all1) ELSE i
    IN  [all1 EXCEPT ![j].rrf_score = @ + RrfTerm(weights.colbert, rank)]

\* The three loops: all_docs after the first n entries of each list,
\* kept in insertion order as a Python dict keeps it.
\* enumerate(dense_results) without the start index: ranks from 0
RECURSIVE DenseLoopZeroIndexed(_, _, _, _)
DenseLoopZeroIndexed(all, list, n, weights) ==
    IF n = 0 THEN all
    ELSE FuseDense(DenseLoopZeroIndexed(all, list, n - 1, weights), list[n], n - 1, weights)

RECURSIVE DenseLoop(_, _, _, _)
DenseLoop(all, list, n, weights) ==
    IF n = 0 THEN all
    ELSE FuseDense(DenseLoop(all, list, n - 1, weights), list[n], n, weights)

RECURSIVE Bm25Loop(_, _, _, _)
Bm25Loop(all, list, n, weights) ==
    IF n = 0 THEN all
    ELSE FuseBm25(Bm25Loop(all, list, n - 1, weights), list[n], n, weights)

RECURSIVE ColbertLoop(_, _, _, _)
ColbertLoop(all, list, n, weights) ==
    IF n = 0 THEN all
    ELSE FuseColbert(ColbertLoop(all, list, n - 1, weights), list[n], n, weights)

\* sorted(all_docs.values(), key=rrf_score, reverse=True): stable, descending.
RECURSIVE InsertByRrf(_, _)
InsertByRrf(sorted, x) ==
    IF sorted = <<>> THEN <<x>>
    ELSE IF Head(sorted).rrf_score >= x.rrf_score
         THEN <<Head(sorted)>> \o InsertByRrf(Tail(sorted), x)
         ELSE <<x>> \o sorted

RECURSIVE SortByRrf(_, _)
SortByRrf(all, n) ==
    IF n = 0 THEN <<>> ELSE InsertByRrf(SortByRrf(all, n - 1), all[n])

fuse(dense, bm25l, colbert, weights) ==
    LET a1 == DenseLoop(<<>>, dense, Len(dense), weights)
        a2 == Bm25Loop(a1, bm25l, Len(bm25l), weights)
        a3 == ColbertLoop(a2, colbert, Len(colbert), weights)
    IN  SortByRrf(a3, Len(a3))

(***************************************************************************)
(* Entry point "fuse": the caller hands three ranked lists to fuse.        *)
(***************************************************************************)
Unused == "unused"

\* Raw scores of the retrievers live on incomparable scales.
RawScales == {1, 7}

\* A retriever's list for the id sequence ids: descending raw scores.
DenseList(ids, scale) ==
    [i \in 1..Len(ids) |->
        [chunk_id |-> ids[i], content |-> Content(ids[i]), metadata |-> "payload",
         similarity |-> scale * (Len(ids) + 1 - i)]]

Bm25List(ids, scale) ==
    [i \in 1..Len(ids) |->
        [chunk_id |-> ids[i], content |-> Content(ids[i]), metadata |-> "payload",
         bm25_score |-> scale * (Len(ids) + 1 - i)]]

\* ColBERTRetriever.search formats every hit with 'metadata': {} (line 153).
ColbertList(ids, scale) ==
    [i \in 1..Len(ids) |->
        [chunk_id |-> ids[i], content |-> Content(ids[i]), metadata |-> "empty",
         colbert_score |-> scale * (Len(ids) + 1 - i)]]

InitFuse ==
    /\ call = "fuse"
    /\ pc = "start"
    /\ \E scale \in RawScales :
         /\ dense_results \in {DenseList(ids, scale) : ids \in SeqsUpTo(ChunkIds, MaxLen)}
         /\ bm25_results \in {Bm25List(ids, scale) : ids \in SeqsUpTo(ChunkIds, MaxLen)}
         /\ colbert_results \in
                {ColbertList(ids, scale) : ids \in SeqsUpTo(ChunkIds, MaxColbertLen)}
    /\ fused_results = <<>>
    /\ srch = Unused
    /\ cfg = Unused /\ reranker = Unused /\ req = Unused /\ resp = Unused
    /\ answers = Unused
    /\ bm25 = Unused /\ ixt = Unused /\ sxt = Unused /\ colbert_retriever = Unused

\* rrf_fusion.fuse(dense_results, bm25_results, colbert_results) returns.
FuseCall ==
    /\ call = "fuse"
    /\ pc = "start"
    /\ fused_results' = fuse(dense_results, bm25_results, colbert_results, DefaultWeights)
    /\ pc' = "done"
    /\ UNCHANGED <<call, dense_results, bm25_results, colbert_results, srch>>
    /\ UNCHANGED rerankVars
    /\ UNCHANGED indexVars

NextFuse == FuseCall

SpecFuse == InitFuse /\ [][NextFuse]_vars


(***************************************************************************)
(* Exact fractions <<n, d>>, d > 0, in lowest terms, for reranker scores.  *)
(* <<0, 0>> stands for Python's None in an Optional[float] field.          *)
(***************************************************************************)
RECURSIVE Gcd(_, _)
Gcd(a, b) == IF b = 0 THEN a ELSE Gcd(b, a % b)

Abs(x) == IF x < 0 THEN -x ELSE x

Frac(n, d) ==
    LET g == Gcd(Abs(n), d)
    IN  IF n = 0 THEN <<0, 1>> ELSE <<n \div g, d \div g>>

NoScore == <<0, 0>>
Zero    == <<0, 1>>
One     == <<1, 1>>

FAdd(a, b) == Frac(a[1] * b[2] + b[1] * a[2], a[2] * b[2])
FMul(a, b) == Frac(a[1] * b[1], a[2] * b[2])
FDiv(a, b) == IF b[1] > 0 THEN Frac(a[1] * b[2], a[2] * b[1])
              ELSE Frac(-(a[1] * b[2]), a[2] * (-b[1]))
FLeq(a, b) == a[1] * b[2] <= b[1] * a[2]
FMin(a, b) == IF FLeq(a, b) THEN a ELSE b

RECURSIVE FSum(_)
FSum(s) == IF s = <<>> THEN Zero ELSE FAdd(Head(s), FSum(Tail(s)))

\* Python truthiness of an Optional[float]: None and 0.0 are both false.
Truthy(x) == x # NoScore /\ x[1] # 0

(***************************************************************************)
(* KeywordBooster                                                          *)
(***************************************************************************)
Queries == {"What is the patient's blood pressure?", ""}

\* set(text.lower().split()) for the texts of the corpus
Tokens(text) ==
    CASE text = "What is the patient's blood pressure?" ->
             {"what", "is", "the", "patient's", "blood", "pressure?"}
      [] text = "Patient blood pressure is 145/92 mmHg, elevated hypertension." ->
             {"patient", "blood", "pressure", "is", "145/92", "mmhg,", "elevated",
              "hypertension."}
      [] text = "Heart rate measured at 88 bpm, within normal range." ->
             {"heart", "rate", "measured", "at", "88", "bpm,", "within", "normal", "range."}
      [] text = "The weather is sunny today with clear skies." ->
             {"the", "weather", "is", "sunny", "today", "with", "clear", "skies."}
      [] text = "patient blood pressure heart rate glucose diagnosis treatment medication" ->
             {"blood", "diagnosis", "glucose", "heart", "medication", "patient", "pressure", "rate", "treatment"}
      [] text = "BLOOD PRESSURE" ->
             {"blood", "pressure"}
      [] text = "patient" ->
             {"patient"}
      [] text = "symptoms symptoms symptoms" ->
             {"symptoms"}
      [] OTHER -> {}

\* self.medical_keywords (lines 194-199)
medical_keywords ==
    {"blood pressure", "heart rate", "temperature", "oxygen saturation",
     "glucose", "hemoglobin", "cholesterol", "triglycerides",
     "diagnosis", "treatment", "medication", "prescription",
     "patient", "vital signs", "lab results", "symptoms"}

\* {keyword in medical_keywords : keyword in text.lower()}, substring test
KeywordsIn(text) ==
    CASE text = "What is the patient's blood pressure?" -> {"blood pressure", "patient"}
      [] text = "Patient blood pressure is 145/92 mmHg, elevated hypertension." -> {"blood pressure", "patient"}
      [] text = "Heart rate measured at 88 bpm, within normal range." -> {"heart rate"}
      [] text = "patient blood pressure heart rate glucose diagnosis treatment medication" ->
             {"blood pressure", "diagnosis", "glucose", "heart rate", "medication", "patient", "treatment"}
      [] text = "BLOOD PRESSURE" ->
             {"blood pressure"}
      [] text = "patient" ->
             {"patient"}
      [] text = "symptoms symptoms symptoms" ->
             {"symptoms"}
      [] OTHER -> {}

\* the combined score without the min(..., 1.0)
calculate_boostUncapped(query, content) ==
    LET query_keywords   == Tokens(query)
        content_keywords == Tokens(content)
        phrase_match == Frac(Cardinality({k \in medical_keywords :
                                 k \in KeywordsIn(query) /\ k \in KeywordsIn(content)}), 10)
        overlap == Frac(Cardinality(query_keywords \cap content_keywords),
                        Max(Cardinality(query_keywords), 1))
    IN  FAdd(phrase_match, FMul(overlap, Frac(1, 2)))

\* KeywordBooster.calculate_boost (lines 201-220)
calculate_boost(query, content) ==
    LET query_keywords   == Tokens(query)
        content_keywords == Tokens(content)
        phrase_match == Frac(Cardinality({k \in medical_keywords :
                                 k \in KeywordsIn(query) /\ k \in KeywordsIn(content)}), 10)
        overlap == Frac(Cardinality(query_keywords \cap content_keywords),
                        Max(Cardinality(query_keywords), 1))
    IN  FMin(FAdd(phrase_match, FMul(overlap, Frac(1, 2))), One)

(***************************************************************************)
(* RerankResult and the candidates handed to rerank                        *)
(***************************************************************************)
\* doc.get('similarity', 0.0), doc.get('metadata', {})
Similarity(doc) == IF "similarity" \in DOMAIN doc THEN doc.similarity ELSE Zero
Metadata(doc)   == IF "metadata" \in DOMAIN doc THEN doc.metadata ELSE "empty"

SimilarityOf(id) ==
    CASE id = "d1" -> Frac(75, 100)
      [] id = "d2" -> Frac(70, 100)
      [] OTHER     -> Frac(85, 100)

Candidate(id) == [chunk_id |-> id, content |-> Content(id), similarity |-> SimilarityOf(id)]

RerankResult(doc, original, rerank) ==
    [chunk_id |-> doc.chunk_id, content |-> doc.content,
     original_score |-> original, rerank_score |-> rerank,
     flashrank_score |-> NoScore, cross_encoder_score |-> NoScore,
     mxbai_score |-> NoScore, keyword_score |-> NoScore,
     metadata |-> Metadata(doc)]

\* list.sort(key=rerank_score, reverse=True): stable, descending.
RECURSIVE InsertByRerank(_, _)
InsertByRerank(sorted, x) ==
    IF sorted = <<>> THEN <<x>>
    ELSE IF FLeq(x.rerank_score, Head(sorted).rerank_score)
         THEN <<Head(sorted)>> \o InsertByRerank(Tail(sorted), x)
         ELSE <<x>> \o sorted

RECURSIVE SortByRerankN(_, _)
SortByRerankN(list, n) ==
    IF n = 0 THEN <<>> ELSE InsertByRerank(SortByRerankN(list, n - 1), list[n])

\* the sort without reverse=True: ascending
SortByRerankAscending(list) ==
    LET sorted == SortByRerankN(list, Len(list))
    IN  [i \in 1..Len(sorted) |-> sorted[Len(sorted) + 1 - i]]

SortByRerank(list) == SortByRerankN(list, Len(list))

\* the sort without the slice
SortOnly(results, top_k) == SortByRerank(results)

\* the slice without the sort
CutOnly(results, top_k) == Take(results, top_k)

\* results.sort(key=lambda x: x.rerank_score, reverse=True); return results[:top_k]
\* (lines 325-326, 370-371, 404-405, 474-475)
SortAndCut(results, top_k) == Take(SortByRerank(results), top_k)

\* a fallback that ranks by similarity before it cuts
FallbackBySimilarity(documents, top_k) ==
    Take(SortByRerank([i \in 1..Len(documents) |->
            RerankResult(documents[i], Similarity(documents[i]), Similarity(documents[i]))]),
         top_k)

\* The _fallback / _fallback_rerank bodies (lines 96-107, 172-183, 477-488).
Fallback(documents, top_k) ==
    LET head == Take(documents, top_k)
    IN  [i \in 1..Len(head) |-> RerankResult(head[i], Similarity(head[i]), Similarity(head[i]))]

(***************************************************************************)
(* The scorers.  What a loaded model answers is the environment's choice:  *)
(* either the call raises or it scores every passage (score: a function    *)
(* from chunk_id to an integer score).                                     *)
(***************************************************************************)
FastScores     == {0, 1, 2}
AccurateScores == {0, 3}
CrossScores    == {0, 1}

NotCalled(documents) == [raises |-> FALSE, score |-> [id \in Ids(documents) |-> 0]]
Raises(documents)    == [raises |-> TRUE, score |-> [id \in Ids(documents) |-> 0]]
Outcomes(documents, scores) ==
    {Raises(documents)} \cup {[raises |-> FALSE, score |-> f] : f \in [Ids(documents) -> scores]}

\* FlashRankReranker.rerank (lines 59-94); ranker.rerank answers with the
\* passages in descending score order.
FlashRankRerank(ranker, documents, top_k, out) ==
    IF ~ranker \/ out.raises THEN Fallback(documents, top_k)
    ELSE LET scored == [i \in 1..Len(documents) |->
                          [RerankResult(documents[i], Similarity(documents[i]),
                                        Frac(out.score[documents[i].chunk_id], 1))
                           EXCEPT !.flashrank_score = Frac(out.score[documents[i].chunk_id], 1)]]
         IN  Take(SortByRerank(scored), top_k)

\* MixedBreadReranker.rerank (lines 140-170)
MixedBreadRerank(model, documents, top_k, out) ==
    IF ~model \/ out.raises THEN Fallback(documents, top_k)
    ELSE LET scored == [i \in 1..Len(documents) |->
                          [RerankResult(documents[i], Similarity(documents[i]),
                                        Frac(out.score[documents[i].chunk_id], 1))
                           EXCEPT !.mxbai_score = Frac(out.score[documents[i].chunk_id], 1)]]
         IN  Take(SortByRerank(scored), top_k)

(***************************************************************************)
(* AdvancedHybridReranker                                                  *)
(***************************************************************************)
Strategies == {"speed", "balanced", "accurate", "ensemble"}

\* What can be loaded on the host: the flashrank package with its model,
\* the sentence_transformers package, and the weights of the MixedBread
\* and of the cross-encoder model.
Environments ==
    {e \in SUBSET {"flashrank", "sentence_transformers", "mxbai_weights", "ce_weights"} :
        "sentence_transformers" \notin e => e \subseteq {"flashrank"}}

\* FlashRankReranker.__init__ (lines 47-57): ranker is None unless loaded.
FlashRankInit(env) == [ranker |-> "flashrank" \in env]

\* MixedBreadReranker.__init__ (lines 128-138): model is None unless loaded.
MixedBreadInit(env) == [model |-> {"sentence_transformers", "mxbai_weights"} \subseteq env]

\* try: CrossEncoder(name)  except: None   (lines 264-268, 274-278, 284-288)
CrossEncoderLoad(env) == "ce_weights" \in env

NoObject == [ranker |-> FALSE, model |-> FALSE]

\* "from sentence_transformers import CrossEncoder" stands outside the try
\* block in the three branches that run it (lines 263, 273, 283).
ImportRaises(strategy, env) ==
    strategy # "speed" /\ "sentence_transformers" \notin env

\* AdvancedHybridReranker.__init__ (lines 237-290); present says whether a
\* wrapper object was created at all (self.flashrank is not None).
Construct(c) ==
    [strategy        |-> c.strategy,
     keyword_booster |-> c.use_keyword_boost,
     has_flashrank   |-> c.strategy \in {"speed", "balanced", "ensemble"} /\ c.use_flashrank,
     flashrank       |-> IF c.strategy \in {"speed", "balanced", "ensemble"} /\ c.use_flashrank
                         THEN FlashRankInit(c.env) ELSE NoObject,
     has_mxbai       |-> c.strategy \in {"accurate", "ensemble"} /\ c.use_mxbai,
     mxbai           |-> IF c.strategy \in {"accurate", "ensemble"} /\ c.use_mxbai
                         THEN MixedBreadInit(c.env) ELSE NoObject,
     cross_encoder   |-> c.strategy # "speed" /\ CrossEncoderLoad(c.env)]

FastReady(r)     == r.has_flashrank /\ r.flashrank.ranker   \* self.flashrank and self.flashrank.ranker
AccurateReady(r) == r.has_mxbai /\ r.mxbai.model            \* self.mxbai and self.mxbai.model

Returned(results, calls) == [results |-> results, raised |-> FALSE, calls |-> calls]
Raised(calls)            == [results |-> <<>>, raised |-> TRUE, calls |-> calls]

\* the keyword score added to the score instead of scaling it
BoostAllAdditive(r, query, results, factor) ==
    IF ~r.keyword_booster THEN results
    ELSE [i \in 1..Len(results) |->
            LET keyword_score == calculate_boost(query, results[i].content)
            IN  [results[i] EXCEPT
                   !.keyword_score = keyword_score,
                   !.rerank_score  = FAdd(@, FMul(keyword_score, factor))]]

\* for r in results: r.keyword_score = boost; r.rerank_score *= 1 + boost * factor
BoostAll(r, query, results, factor) ==
    IF ~r.keyword_booster THEN results
    ELSE [i \in 1..Len(results) |->
            LET keyword_score == calculate_boost(query, results[i].content)
            IN  [results[i] EXCEPT
                   !.keyword_score = keyword_score,
                   !.rerank_score  = FMul(@, FAdd(One, FMul(keyword_score, factor)))]]

\* for r in results: r.keyword_score = boost
KeywordAll(r, query, results) ==
    IF ~r.keyword_booster THEN results
    ELSE [i \in 1..Len(results) |->
            [results[i] EXCEPT !.keyword_score = calculate_boost(query, results[i].content)]]

\* _speed_rerank (lines 311-326)
SpeedRerank(r, query, documents, top_k, fast) ==
    LET results == IF FastReady(r)
                   THEN FlashRankRerank(r.flashrank.ranker, documents, top_k, fast)
                   ELSE Fallback(documents, top_k)
        boosted == BoostAll(r, query, results, Frac(1, 10))
    IN  Returned(SortAndCut(boosted, top_k),
                 IF FastReady(r) THEN {"fast"} ELSE {})

\* the weighted sum of lines 359-368
BalancedScore(c) ==
    LET scores == (IF Truthy(c.flashrank_score)
                   THEN <<FMul(c.flashrank_score, Frac(4, 10))>> ELSE <<>>)
               \o (IF Truthy(c.cross_encoder_score)
                   THEN <<FMul(c.cross_encoder_score, Frac(4, 10))>> ELSE <<>>)
               \o (IF Truthy(c.keyword_score)
                   THEN <<FMul(c.keyword_score, Frac(2, 10))>> ELSE <<>>)
    IN  IF scores # <<>> THEN FSum(scores) ELSE c.original_score

\* _balanced_rerank (lines 328-371)
BalancedRerank(r, query, documents, top_k, fast, cross) ==
    LET candidates == IF FastReady(r)
                      THEN FlashRankRerank(r.flashrank.ranker, documents, top_k * 2, fast)
                      ELSE Fallback(documents, top_k * 2)
        calls1  == IF FastReady(r) THEN {"fast"} ELSE {}
        calls2  == calls1 \cup (IF r.cross_encoder THEN {"cross"} ELSE {})
        crossed == IF r.cross_encoder
                   THEN [i \in 1..Len(candidates) |->
                           [candidates[i] EXCEPT !.cross_encoder_score =
                                Frac(cross.score[candidates[i].chunk_id], 1)]]
                   ELSE candidates
        keyed   == KeywordAll(r, query, crossed)
        scored  == [i \in 1..Len(keyed) |->
                      [keyed[i] EXCEPT !.rerank_score = BalancedScore(keyed[i])]]
    IN  IF r.cross_encoder /\ cross.raises THEN Raised(calls2)
        ELSE Returned(SortAndCut(scored, top_k), calls2)

\* _accurate_rerank (lines 373-405)
AccurateRerank(r, query, documents, top_k, accurate, cross) ==
    LET viaCross == ~AccurateReady(r) /\ r.cross_encoder
        calls    == IF AccurateReady(r) THEN {"accurate"}
                    ELSE IF viaCross THEN {"cross"} ELSE {}
        results  == IF AccurateReady(r)
                    THEN MixedBreadRerank(r.mxbai.model, documents, top_k * 2, accurate)
                    ELSE IF viaCross
                    THEN Take(SortByRerank(
                           [i \in 1..Len(documents) |->
                              [RerankResult(documents[i], Similarity(documents[i]),
                                            Frac(cross.score[documents[i].chunk_id], 1))
                               EXCEPT !.cross_encoder_score =
                                          Frac(cross.score[documents[i].chunk_id], 1)]]),
                           top_k * 2)
                    ELSE Fallback(documents, top_k * 2)
        boosted  == BoostAll(r, query, results, Frac(15, 100))
    IN  IF viaCross /\ cross.raises THEN Raised(calls)
        ELSE Returned(SortAndCut(boosted, top_k), calls)

\* the weighted average of lines 447-471
EnsembleScore(c) ==
    LET parts == (IF Truthy(c.flashrank_score)
                  THEN <<<<c.flashrank_score, Frac(25, 100)>>>> ELSE <<>>)
              \o (IF Truthy(c.mxbai_score)
                  THEN <<<<c.mxbai_score, Frac(40, 100)>>>> ELSE <<>>)
              \o (IF Truthy(c.cross_encoder_score)
                  THEN <<<<c.cross_encoder_score, Frac(25, 100)>>>> ELSE <<>>)
              \o (IF Truthy(c.keyword_score)
                  THEN <<<<c.keyword_score, Frac(10, 100)>>>> ELSE <<>>)
        weighted == [i \in 1..Len(parts) |-> FMul(parts[i][1], parts[i][2])]
        weights  == [i \in 1..Len(parts) |-> parts[i][2]]
    IN  IF parts # <<>> THEN FDiv(FSum(weighted), FSum(weights)) ELSE c.original_score

\* _ensemble_rerank (lines 407-475)
EnsembleRerank(r, query, documents, top_k, fast, accurate, cross) ==
    LET initial == [i \in 1..Len(documents) |->
                      RerankResult(documents[i], Similarity(documents[i]), Zero)]
        flashrank_results ==
            IF FastReady(r)
            THEN FlashRankRerank(r.flashrank.ranker, documents, Len(documents), fast)
            ELSE <<>>
        \* for i, fr in enumerate(flashrank_results): results[i].flashrank_score = fr.rerank_score
        withFast == [i \in 1..Len(initial) |->
                       IF i <= Len(flashrank_results)
                       THEN [initial[i] EXCEPT !.flashrank_score = flashrank_results[i].rerank_score]
                       ELSE initial[i]]
        accRaises == AccurateReady(r) /\ accurate.raises
        withAcc  == IF AccurateReady(r) /\ ~accRaises
                    THEN [i \in 1..Len(withFast) |->
                            [withFast[i] EXCEPT !.mxbai_score =
                                 Frac(accurate.score[withFast[i].chunk_id], 1)]]
                    ELSE withFast
        crossCalled == r.cross_encoder /\ ~accRaises
        crossRaises == crossCalled /\ cross.raises
        withCross == IF crossCalled /\ ~crossRaises
                     THEN [i \in 1..Len(withAcc) |->
                             [withAcc[i] EXCEPT !.cross_encoder_score =
                                  Frac(cross.score[withAcc[i].chunk_id], 1)]]
                     ELSE withAcc
        keyed  == KeywordAll(r, query, withCross)
        scored == [i \in 1..Len(keyed) |->
                     [keyed[i] EXCEPT !.rerank_score = EnsembleScore(keyed[i])]]
        calls  == (IF FastReady(r) THEN {"fast"} ELSE {})
                  \cup (IF AccurateReady(r) THEN {"accurate"} ELSE {})
                  \cup (IF crossCalled THEN {"cross"} ELSE {})
    IN  IF accRaises \/ crossRaises THEN Raised(calls)
        ELSE Returned(SortAndCut(scored, top_k), calls)

\* rerank (lines 292-309)
rerankNoEmptyGuard(r, query, documents, top_k, fast, accurate, cross) ==
    CASE r.strategy = "speed"    -> SpeedRerank(r, query, documents, top_k, fast)
      [] r.strategy = "balanced" -> BalancedRerank(r, query, documents, top_k, fast, cross)
      [] r.strategy = "accurate" -> AccurateRerank(r, query, documents, top_k, accurate, cross)
      [] OTHER -> EnsembleRerank(r, query, documents, top_k, fast, accurate, cross)

rerank(r, query, documents, top_k, fast, accurate, cross) ==
    IF documents = <<>> THEN Returned(<<>>, {})
    ELSE CASE r.strategy = "speed"    -> SpeedRerank(r, query, documents, top_k, fast)
           [] r.strategy = "balanced" -> BalancedRerank(r, query, documents, top_k, fast, cross)
           [] r.strategy = "accurate" ->
                  AccurateRerank(r, query, documents, top_k, accurate, cross)
           [] OTHER -> EnsembleRerank(r, query, documents, top_k, fast, accurate, cross)

(***************************************************************************)
(* Entry point "rerank": create_advanced_reranker(strategy, ...) and then  *)
(* one reranker.rerank(query, documents, top_k).                           *)
(***************************************************************************)
\* candidate lists: distinct candidates of the corpus, in any order
DocLists ==
    {[i \in 1..Len(ids) |-> Candidate(ids[i])] :
        ids \in {s \in SeqsUpTo(ChunkIds, MaxLen) :
                    \A i, j \in 1..Len(s) : s[i] = s[j] => i = j}}

InitRerank ==
    /\ call = "rerank"
    /\ pc = "start"
    /\ cfg \in [strategy : Strategies, use_flashrank : {TRUE}, use_mxbai : {TRUE},
                use_keyword_boost : BOOLEAN, env : Environments]
    /\ req \in [query : Queries, documents : DocLists, top_k : 1..MaxTopK]
    /\ reranker = Unused
    /\ resp = Unused /\ answers = Unused
    /\ dense_results = <<>> /\ bm25_results = <<>> /\ colbert_results = <<>>
    /\ fused_results = <<>>
    /\ srch = Unused
    /\ bm25 = Unused /\ ixt = Unused /\ sxt = Unused /\ colbert_retriever = Unused

\* create_advanced_reranker(strategy, **kwargs) (lines 492-502)
ConstructCall ==
    /\ call = "rerank"
    /\ pc = "start"
    /\ IF ImportRaises(cfg.strategy, cfg.env)
       THEN pc' = "ctor_raised" /\ reranker' = Unused
       ELSE pc' = "constructed" /\ reranker' = Construct(cfg)
    /\ UNCHANGED <<call, cfg, req, resp, answers, srch>>
    /\ UNCHANGED fuseVars
    /\ UNCHANGED indexVars

\* which loaded scorers a call with these arguments reaches
FastCalled     == req.documents # <<>> /\ FastReady(reranker)
AccurateCalled == req.documents # <<>> /\ AccurateReady(reranker)
CrossCalled    == /\ req.documents # <<>>
                  /\ reranker.cross_encoder
                  /\ reranker.strategy = "accurate" => ~AccurateReady(reranker)

\* reranker.rerank(query, documents, top_k)
RerankCall ==
    /\ call = "rerank"
    /\ pc = "constructed"
    /\ \E fast \in (IF FastCalled THEN Outcomes(req.documents, FastScores) ELSE {NotCalled(req.documents)}),
          accurate \in (IF AccurateCalled THEN Outcomes(req.documents, AccurateScores)
                        ELSE {NotCalled(req.documents)}),
          cross \in (IF CrossCalled THEN Outcomes(req.documents, CrossScores)
                     ELSE {NotCalled(req.documents)}) :
         /\ resp' = rerank(reranker, req.query, req.documents, req.top_k,
                           fast, accurate, cross)
         /\ answers' = [fast |-> fast, accurate |-> accurate, cross |-> cross]
    /\ pc' = "done"
    /\ UNCHANGED <<call, cfg, req, reranker, srch>>
    /\ UNCHANGED fuseVars
    /\ UNCHANGED indexVars

NextRerank == ConstructCall \/ RerankCall

SpecRerank == InitRerank /\ [][NextRerank]_vars

(***************************************************************************)
(* BM25Retriever                                                           *)
(***************************************************************************)
\* an indexed document (dense payloads and BM25 documents carry metadata)
Document(id) == [chunk_id |-> id, content |-> Content(id), metadata |-> "payload"]

DistinctSeqs(n) ==
    {s \in SeqsUpTo(ChunkIds, n) : \A i, j \in 1..Len(s) : s[i] = s[j] => i = j}

Corpora == {[i \in 1..Len(ids) |-> Document(ids[i])] : ids \in DistinctSeqs(MaxLen)}

\* bm25_index is None (NoIndex) or a BM25Okapi built over a corpus.
NoIndex == [built |-> FALSE, corpus |-> <<>>]
IndexOver(documents) == [built |-> TRUE, corpus |-> documents]

\* BM25Retriever.__init__ (lines 28-38): without rank_bm25 neither documents
\* nor bm25_index is ever assigned.
Bm25Init(installed) ==
    [BM25Okapi |-> installed, has_fields |-> installed,
     documents |-> <<>>, bm25_index |-> NoIndex]

\* What get_scores answers for the query: one score per indexed document.
Bm25Scores == {0, 1, 2}

\* np.argsort(scores)[::-1]: positions by ascending score, reversed; equal
\* scores come out in descending position order.
RECURSIVE InsertAscending(_, _, _)
InsertAscending(order, i, scores) ==
    IF order = <<>> THEN <<i>>
    ELSE IF scores[Head(order)] <= scores[i]
         THEN <<Head(order)>> \o InsertAscending(Tail(order), i, scores)
         ELSE <<i>> \o order

RECURSIVE Argsort(_, _)
Argsort(scores, n) ==
    IF n = 0 THEN <<>> ELSE InsertAscending(Argsort(scores, n - 1), n, scores)

Reverse(s) == [i \in 1..Len(s) |-> s[Len(s) + 1 - i]]

\* BM25Retriever.search (lines 55-79).  oracle gives the score BM25 assigns
\* to each chunk for the query.  The answer is [raised, results].
Bm25Search(b, oracle, top_k) ==
    IF ~b.has_fields THEN [raised |-> TRUE, results |-> <<>>]      \* AttributeError
    ELSE IF ~b.bm25_index.built THEN [raised |-> FALSE, results |-> <<>>]
    ELSE LET corpus == b.bm25_index.corpus
             scores == [i \in 1..Len(corpus) |-> oracle[corpus[i].chunk_id]]
             top_indices == Take(Reverse(Argsort(scores, Len(scores))), top_k)
             hits == SelectSeq(top_indices, LAMBDA idx : scores[idx] > 0)
         IN  IF \E i \in 1..Len(hits) : hits[i] > Len(b.documents)
             THEN [raised |-> TRUE, results |-> <<>>]              \* IndexError
             ELSE [raised |-> FALSE,
                   results |-> [i \in 1..Len(hits) |->
                                  [chunk_id   |-> b.documents[hits[i]].chunk_id,
                                   content    |-> b.documents[hits[i]].content,
                                   metadata   |-> b.documents[hits[i]].metadata,
                                   bm25_score |-> scores[hits[i]]]]]

(***************************************************************************)
(* Entry point "search": the coroutine UltimateHybridRetriever.search      *)
(* (lines 347-428).  pc is the coroutine's position; every collaborator    *)
(* call returns, raises or never comes back.                               *)
(***************************************************************************)
\* what the vector store ranks for the query: hit.payload and hit.score
StoreHits(ids) ==
    [i \in 1..Len(ids) |-> [payload |-> Document(ids[i]), score |-> Len(ids) + 1 - i]]

\* lines 387-393; every payload carries chunk_id, content and metadata, as
\* the ingestion writes them (docling_rag_analyzer.py lines 284-288)
FormatHits(search_results) ==
    [i \in 1..Len(search_results) |->
        [chunk_id   |-> search_results[i].payload.chunk_id,
         content    |-> search_results[i].payload.content,
         similarity |-> search_results[i].score,
         metadata   |-> search_results[i].payload.metadata]]

\* states of self.bm25_retriever a search can meet: rank_bm25 missing,
\* never indexed, indexed, and documents replaced under an older index
Bm25States ==
    {Bm25Init(FALSE), Bm25Init(TRUE),
     [Bm25Init(TRUE) EXCEPT !.documents = <<Document("d1"), Document("d2"), Document("d3")>>,
                            !.bm25_index = IndexOver(<<Document("d1"), Document("d2"),
                                                       Document("d3")>>)],
     [Bm25Init(TRUE) EXCEPT !.documents = <<Document("d2")>>,
                            !.bm25_index = IndexOver(<<Document("d1"), Document("d2")>>)]}

Retrievers == {"dense", "bm25", "colbert"}

InitSearch ==
    /\ call = "search"
    /\ pc = "start"
    /\ srch \in [top_k : 1..MaxTopK, use_dense : BOOLEAN, use_bm25 : BOOLEAN,
                 use_colbert : BOOLEAN, has_dense : BOOLEAN,
                 started : {{}}, finished : {{}}, failed : {{}},
                 answers : {[dense |-> <<>>, bm25 |-> <<>>, colbert |-> <<>>]}]
    /\ bm25 \in Bm25States
    /\ dense_results = <<>> /\ bm25_results = <<>> /\ colbert_results = <<>>
    /\ fused_results = <<>>
    /\ cfg = Unused /\ reranker = Unused /\ req = Unused /\ resp = Unused
    /\ answers = Unused
    /\ ixt = Unused /\ sxt = Unused /\ colbert_retriever = Unused

retrieval_k == srch.top_k * 3

SearchFrame ==
    /\ UNCHANGED <<call, bm25, ixt, sxt, colbert_retriever>>
    /\ UNCHANGED rerankVars

\* Where the coroutine goes once the dense stage is over, and the guards of
\* the BM25 and late-interaction stages: the stages run one after another.
AfterDense == "bm25"
\* a BM25 stage that does not wait for the dense stage
Bm25MayStartEarly == pc \in {"embed", "store", "bm25"}
Bm25MayStart    == pc = "bm25"
ColbertMayStart == pc = "colbert"
FuseMayStart    == pc = "fuse"

\* lines 372-378: dense_results = []; the await on asyncio.to_thread(embed_query)
SearchBegin ==
    /\ call = "search" /\ pc = "start"
    /\ IF srch.use_dense /\ srch.has_dense
       THEN pc' = "embed" /\ srch' = [srch EXCEPT !.started = @ \cup {"dense"}]
       ELSE pc' = AfterDense /\ srch' = srch
    /\ UNCHANGED fuseVars
    /\ SearchFrame

EmbedReturns ==
    /\ call = "search" /\ pc = "embed"
    /\ pc' = "store"
    /\ UNCHANGED srch
    /\ UNCHANGED fuseVars
    /\ SearchFrame

\* except Exception (lines 396-397)
EmbedRaises ==
    /\ call = "search" /\ pc = "embed"
    /\ pc' = AfterDense
    /\ srch' = [srch EXCEPT !.finished = @ \cup {"dense"}, !.failed = @ \cup {"dense"}]
    /\ UNCHANGED fuseVars
    /\ SearchFrame

\* A collaborator call that never comes back: nothing in search bounds the
\* wait, the coroutine stays where it is.
Stalls(at, who) ==
    /\ call = "search" /\ pc = at
    /\ pc' = "stalled"
    /\ srch' = [srch EXCEPT !.started = @ \cup {who}]
    /\ UNCHANGED fuseVars
    /\ SearchFrame

EmbedStalls == Stalls("embed", "dense")
StoreStalls == Stalls("store", "dense")

\* qdrant_client.search(limit=retrieval_k) and the formatting loop (380-393)
StoreReturns ==
    /\ call = "search" /\ pc = "store"
    /\ \E ids \in DistinctSeqs(MaxLen) :
         LET formatted == FormatHits(Take(StoreHits(ids), retrieval_k))
         IN  /\ dense_results' = formatted
             /\ srch' = [srch EXCEPT !.finished = @ \cup {"dense"},
                                     !.answers.dense = formatted]
    /\ pc' = AfterDense
    /\ UNCHANGED <<bm25_results, colbert_results, fused_results>>
    /\ SearchFrame

StoreRaises ==
    /\ call = "search" /\ pc = "store"
    /\ pc' = AfterDense
    /\ srch' = [srch EXCEPT !.finished = @ \cup {"dense"}, !.failed = @ \cup {"dense"}]
    /\ UNCHANGED fuseVars
    /\ SearchFrame

\* lines 400-405
Bm25Stage ==
    /\ call = "search" /\ Bm25MayStart
    /\ IF srch.use_bm25
       THEN \E oracle \in [ChunkIds -> Bm25Scores] :
              LET answer == Bm25Search(bm25, oracle, retrieval_k)
              IN  /\ bm25_results' = answer.results
                  /\ srch' = [srch EXCEPT
                        !.started  = @ \cup {"bm25"},
                        !.finished = @ \cup {"bm25"},
                        !.failed   = IF answer.raised THEN @ \cup {"bm25"} ELSE @,
                        !.answers.bm25 = answer.results]
       ELSE UNCHANGED <<bm25_results, srch>>
    /\ pc' = "colbert"
    /\ UNCHANGED <<dense_results, colbert_results, fused_results>>
    /\ SearchFrame

Bm25Stalls == call = "search" /\ srch.use_bm25 /\ Bm25MayStart /\ Stalls(pc, "bm25")

\* lines 408-413; ColBERTRetriever.search answers [] when it is unavailable,
\* not indexed or its model call raises
ColbertStage ==
    /\ call = "search" /\ ColbertMayStart
    /\ IF srch.use_colbert
       THEN \E ids \in SeqsUpTo(ChunkIds, MaxColbertLen) :
              /\ colbert_results' = ColbertList(ids, 1)
              /\ srch' = [srch EXCEPT
                    !.started  = @ \cup {"colbert"},
                    !.finished = @ \cup {"colbert"},
                    !.answers.colbert = ColbertList(ids, 1)]
       ELSE UNCHANGED <<colbert_results, srch>>
    /\ pc' = "fuse"
    /\ UNCHANGED <<dense_results, bm25_results, fused_results>>
    /\ SearchFrame

ColbertStalls == call = "search" /\ srch.use_colbert /\ ColbertMayStart /\ Stalls(pc, "colbert")

\* lines 416-428 without the final slice
SearchResultUncut(dense, bm25l, colbert, top_k) ==
    IF dense = <<>> /\ bm25l = <<>> /\ colbert = <<>>
    THEN <<>>
    ELSE fuse(dense, bm25l, colbert, DefaultWeights)

\* lines 416-428: [] when nothing was retrieved, else fused_results[:top_k]
SearchResult(dense, bm25l, colbert, top_k) ==
    IF dense = <<>> /\ bm25l = <<>> /\ colbert = <<>>
    THEN <<>>
    ELSE Take(fuse(dense, bm25l, colbert, DefaultWeights), top_k)

SearchFuse ==
    /\ call = "search" /\ FuseMayStart
    /\ fused_results' = SearchResult(dense_results, bm25_results, colbert_results,
                                      srch.top_k)
    /\ pc' = "done"
    /\ UNCHANGED <<dense_results, bm25_results, colbert_results, srch>>
    /\ SearchFrame

NextSearch ==
    \/ SearchBegin
    \/ EmbedReturns \/ EmbedRaises \/ EmbedStalls
    \/ StoreReturns \/ StoreRaises \/ StoreStalls
    \/ Bm25Stage \/ Bm25Stalls
    \/ ColbertStage \/ ColbertStalls
    \/ SearchFuse

SpecSearch == InitSearch /\ [][NextSearch]_vars

\* The event loop resumes the coroutine whenever it can take a step.
SpecSearchFair == SpecSearch /\ WF_vars(NextSearch)

(***************************************************************************)
(* Entry point "index": one thread inside BM25Retriever.index_documents    *)
(* (lines 40-53) and one inside BM25Retriever.search (lines 55-79) on the  *)
(* same retriever.  Neither method takes a lock, so every attribute access *)
(* is a step of its own.                                                   *)
(***************************************************************************)
IndexedStates ==
    {[Bm25Init(TRUE) EXCEPT !.documents = c, !.bm25_index = IndexOver(c)] :
        c \in Corpora \ {<<>>}}

InitIndex ==
    /\ call = "index"
    /\ pc = "threads"
    /\ bm25 \in {Bm25Init(FALSE), Bm25Init(TRUE)} \cup IndexedStates
    /\ ixt \in [pc : {"start"}, documents : Corpora, before : {bm25}]
    /\ sxt \in [pc : {"start"}, top_k : 1..MaxTopK, oracle : [ChunkIds -> Bm25Scores],
                scores : {<<>>}, top_indices : {<<>>}, i : {1}, results : {<<>>}]
    /\ dense_results = <<>> /\ bm25_results = <<>> /\ colbert_results = <<>>
    /\ fused_results = <<>>
    /\ srch = Unused /\ colbert_retriever = Unused
    /\ cfg = Unused /\ reranker = Unused /\ req = Unused /\ resp = Unused
    /\ answers = Unused

IndexFrame ==
    /\ UNCHANGED <<call, pc, srch, colbert_retriever>>
    /\ UNCHANGED fuseVars
    /\ UNCHANGED rerankVars

\* lines 42-46: the early return, or self.documents = documents
IndexAssign ==
    /\ call = "index" /\ ixt.pc = "start"
    /\ IF ~bm25.BM25Okapi
       THEN ixt' = [ixt EXCEPT !.pc = "done"] /\ bm25' = bm25
       ELSE /\ ixt' = [ixt EXCEPT !.pc = "assigned"]
            /\ bm25' = [bm25 EXCEPT !.documents = ixt.documents]
    /\ UNCHANGED sxt
    /\ IndexFrame

\* lines 49-52: tokenize, build, self.bm25_index = ...
IndexBuild ==
    /\ call = "index" /\ ixt.pc = "assigned"
    /\ ixt' = [ixt EXCEPT !.pc = "done"]
    /\ bm25' = [bm25 EXCEPT !.bm25_index = IndexOver(ixt.documents)]
    /\ UNCHANGED sxt
    /\ IndexFrame

\* lines 49-52 raising (a document without 'content', the BM25Okapi
\* constructor): self.documents stays assigned, the index stays as it was
IndexBuildRaises ==
    /\ call = "index" /\ ixt.pc = "assigned"
    /\ ixt' = [ixt EXCEPT !.pc = "raised"]
    /\ UNCHANGED <<bm25, sxt>>
    /\ IndexFrame

\* lines 57-68: read self.bm25_index, score, rank
SearchGetScores ==
    /\ call = "index" /\ sxt.pc = "start"
    /\ IF ~bm25.has_fields
       THEN sxt' = [sxt EXCEPT !.pc = "raised"]
       ELSE IF ~bm25.bm25_index.built
       THEN sxt' = [sxt EXCEPT !.pc = "returned"]
       ELSE LET corpus == bm25.bm25_index.corpus
                scores == [i \in 1..Len(corpus) |-> sxt.oracle[corpus[i].chunk_id]]
            IN  sxt' = [sxt EXCEPT
                   !.pc = "loop",
                   !.scores = scores,
                   !.top_indices = Take(Reverse(Argsort(scores, Len(scores))), sxt.top_k)]
    /\ UNCHANGED <<bm25, ixt>>
    /\ IndexFrame

\* the record of documents[idx] with the score written into it
WithBm25Score(documents, idx, score) ==
    [chunk_id   |-> documents[idx].chunk_id,
     content    |-> documents[idx].content,
     metadata   |-> documents[idx].metadata,
     bm25_score |-> score]

\* doc = self.documents[idx]; doc['bm25_score'] = score: the write lands in
\* the indexed record too
ScoredAlias(documents, idx, score) ==
    [documents |-> [documents EXCEPT ![idx] = WithBm25Score(documents, idx, score)],
     doc       |-> WithBm25Score(documents, idx, score)]

\* lines 74-75: doc = self.documents[idx].copy(); doc['bm25_score'] = score:
\* the write lands in the copy, self.documents keeps its records
ScoredCopy(documents, idx, score) ==
    [documents |-> documents,
     doc       |-> WithBm25Score(documents, idx, score)]

\* lines 72-76: one iteration, reading self.documents[idx]
SearchLoop ==
    /\ call = "index" /\ sxt.pc = "loop" /\ sxt.i <= Len(sxt.top_indices)
    /\ LET idx == sxt.top_indices[sxt.i]
       IN  IF sxt.scores[idx] > 0
           THEN IF idx > Len(bm25.documents)
                THEN /\ sxt' = [sxt EXCEPT !.pc = "raised"]
                     /\ UNCHANGED bm25
                ELSE LET hit == ScoredCopy(bm25.documents, idx, sxt.scores[idx])
                     IN  /\ sxt' = [sxt EXCEPT !.i = @ + 1,
                                               !.results = Append(@, hit.doc)]
                         /\ bm25' = [bm25 EXCEPT !.documents = hit.documents]
           ELSE /\ sxt' = [sxt EXCEPT !.i = @ + 1]
                /\ UNCHANGED bm25
    /\ UNCHANGED ixt
    /\ IndexFrame

\* lines 78-79
SearchReturn ==
    /\ call = "index" /\ sxt.pc = "loop" /\ sxt.i > Len(sxt.top_indices)
    /\ sxt' = [sxt EXCEPT !.pc = "returned"]
    /\ UNCHANGED <<bm25, ixt>>
    /\ IndexFrame

NextIndex ==
    \/ IndexAssign \/ IndexBuild \/ IndexBuildRaises
    \/ SearchGetScores \/ SearchLoop \/ SearchReturn

SpecIndex == InitIndex /\ [][NextIndex]_vars

(***************************************************************************)
(* Entry point "boost": one call of KeywordBooster.calculate_boost.        *)
(***************************************************************************)
\* queries and contents: those of the corpus, the empty and the blank text,
\* and texts dense in medical keywords
BoostTexts ==
    Queries \cup {Content(id) : id \in ChunkIds}
    \cup {"patient blood pressure heart rate glucose diagnosis treatment medication",
          "BLOOD PRESSURE", "patient", "symptoms symptoms symptoms", "   "}

InitBoost ==
    /\ call = "boost"
    /\ pc = "start"
    /\ req \in [query : BoostTexts, content : BoostTexts]
    /\ resp = Unused /\ answers = Unused
    /\ cfg = Unused /\ reranker = Unused
    /\ dense_results = <<>> /\ bm25_results = <<>> /\ colbert_results = <<>>
    /\ fused_results = <<>>
    /\ srch = Unused
    /\ bm25 = Unused /\ ixt = Unused /\ sxt = Unused /\ colbert_retriever = Unused

\* keyword_booster.calculate_boost(query, content) returns
BoostCall ==
    /\ call = "boost"
    /\ pc = "start"
    /\ resp' = calculate_boost(req.query, req.content)
    /\ pc' = "done"
    /\ UNCHANGED <<call, cfg, reranker, req, answers, srch>>
    /\ UNCHANGED fuseVars
    /\ UNCHANGED indexVars

NextBoost == BoostCall

SpecBoost == InitBoost /\ [][NextBoost]_vars

(***************************************************************************)
(* ColBERTRetriever: one object, index_documents and search called on it   *)
(* in any order.                                                           *)
(***************************************************************************)
\* ColBERTRetriever.__init__ (lines 90-107): rag is the loaded model or None,
\* indexed starts False; collection is what the RAGatouille index holds.
ColbertInit(loaded) == [rag |-> loaded, indexed |-> FALSE, collection |-> <<>>]

\* what the last call on the retriever did: failed says that the model was
\* unavailable or that the underlying rag call raised
ColbertOutcome(op, failed, raised, results) ==
    [op |-> op, failed |-> failed, raised |-> raised, results |-> results]

InitColbert ==
    /\ call = "colbert"
    /\ pc = "ready"
    /\ colbert_retriever \in {ColbertInit(FALSE), ColbertInit(TRUE)}
    /\ req \in [documents : Corpora, top_k : 1..MaxTopK]
    /\ resp = ColbertOutcome("none", FALSE, FALSE, <<>>)
    /\ answers = Unused
    /\ cfg = Unused /\ reranker = Unused
    /\ dense_results = <<>> /\ bm25_results = <<>> /\ colbert_results = <<>>
    /\ fused_results = <<>>
    /\ srch = Unused
    /\ bm25 = Unused /\ ixt = Unused /\ sxt = Unused

ColbertFrame ==
    /\ UNCHANGED <<call, pc, cfg, reranker, req, answers, srch, bm25, ixt, sxt>>
    /\ UNCHANGED fuseVars

\* index_documents, lines 111-113: no model, the early return
ColbertIndexSkipped ==
    /\ call = "colbert"
    /\ ~colbert_retriever.rag
    /\ resp' = ColbertOutcome("index_documents", TRUE, FALSE, <<>>)
    /\ UNCHANGED colbert_retriever
    /\ ColbertFrame

\* index_documents, lines 115-129: rag.index returns, self.indexed = True
ColbertIndexReturns ==
    /\ call = "colbert"
    /\ colbert_retriever.rag
    /\ colbert_retriever' = [colbert_retriever EXCEPT !.indexed = TRUE,
                                                       !.collection = req.documents]
    /\ resp' = ColbertOutcome("index_documents", FALSE, FALSE, <<>>)
    /\ ColbertFrame

\* index_documents, lines 132-134: rag.index raises, self.indexed = False
ColbertIndexRaises ==
    /\ call = "colbert"
    /\ colbert_retriever.rag
    /\ colbert_retriever' = [colbert_retriever EXCEPT !.indexed = FALSE]
    /\ resp' = ColbertOutcome("index_documents", TRUE, FALSE, <<>>)
    /\ ColbertFrame

\* search, lines 138-140: no model or nothing indexed, return []
ColbertSearchUnavailable ==
    /\ call = "colbert"
    /\ ~colbert_retriever.rag \/ ~colbert_retriever.indexed
    /\ resp' = ColbertOutcome("search", ~colbert_retriever.rag, FALSE, <<>>)
    /\ UNCHANGED colbert_retriever
    /\ ColbertFrame

\* search, lines 142-157: rag.search returns at most top_k documents of the
\* collection, each formatted with an empty metadata
ColbertSearchReturns ==
    /\ call = "colbert"
    /\ colbert_retriever.rag /\ colbert_retriever.indexed
    /\ \E ids \in DistinctSeqs(MaxColbertLen) : \E scale \in RawScales :
          /\ Len(ids) <= req.top_k
          /\ {ids[i] : i \in 1..Len(ids)} \subseteq Ids(colbert_retriever.collection)
          /\ resp' = ColbertOutcome("search", FALSE, FALSE, ColbertList(ids, scale))
    /\ UNCHANGED colbert_retriever
    /\ ColbertFrame

\* search, lines 159-161: rag.search raises, return []; self.indexed is not
\* assigned
ColbertSearchRaises ==
    /\ call = "colbert"
    /\ colbert_retriever.rag /\ colbert_retriever.indexed
    /\ resp' = ColbertOutcome("search", TRUE, FALSE, <<>>)
    /\ UNCHANGED colbert_retriever
    /\ ColbertFrame

NextColbert ==
    \/ ColbertIndexSkipped
    \/ ColbertIndexReturns
    \/ ColbertIndexRaises
    \/ ColbertSearchUnavailable
    \/ ColbertSearchReturns
    \/ ColbertSearchRaises

SpecColbert == InitColbert /\ [][NextColbert]_vars

(***************************************************************************)
(* Entry point "pipeline": DoclingRAGAnalyzer.search_similar_chunks with   *)
(* use_hybrid=True: hybrid retrieval, then the balanced reranker over the  *)
(* retrieved list, then the conversion back to dicts.  fused_results       *)
(* holds the method's local variable results.                              *)
(***************************************************************************)
\* what can be loaded for the balanced strategy
PipelineEnvironments == {e \in Environments : "mxbai_weights" \notin e}

\* lines 364-371: the dense hits as dicts, hit.score under 'similarity'
\* (the retrievers' integer scores read as tenths)
QdrantHits(dense) ==
    [i \in 1..Len(dense) |->
        [chunk_id |-> dense[i].chunk_id, content |-> dense[i].content,
         similarity |-> Frac(dense[i].similarity, 10), metadata |-> dense[i].metadata]]

\* lines 390-410: the dict built from a RerankResult; a detailed score is
\* copied only when it is truthy
ResultDict(r) ==
    LET details == {k \in {"flashrank_score", "cross_encoder_score", "mxbai_score",
                           "keyword_score"} : Truthy(r[k])}
        keys    == {"chunk_id", "content", "similarity", "rerank_score", "metadata"}
                       \cup details
    IN  [k \in keys |-> IF k = "similarity" THEN r.original_score ELSE r[k]]

InitPipeline ==
    /\ call = "pipeline"
    /\ pc = "start"
    /\ dense_results \in {DenseList(ids, 1) : ids \in DistinctSeqs(MaxLen)}
    /\ bm25_results \in {Bm25List(ids, 1) : ids \in DistinctSeqs(MaxColbertLen)}
    /\ colbert_results \in {ColbertList(ids, 1) : ids \in DistinctSeqs(MaxColbertLen)}
    /\ fused_results = <<>>
    /\ req \in [query : {"What is the patient's blood pressure?"}, limit : 1..MaxTopK,
                use_reranker : BOOLEAN]
    /\ cfg \in [strategy : {"balanced"}, use_flashrank : {TRUE}, use_mxbai : {TRUE},
                use_keyword_boost : {TRUE}, env : PipelineEnvironments]
    /\ reranker = Unused
    /\ resp = Unused /\ answers = Unused
    /\ srch = Unused
    /\ bm25 = Unused /\ ixt = Unused /\ sxt = Unused /\ colbert_retriever = Unused

PipelineFrame ==
    /\ UNCHANGED <<call, dense_results, bm25_results, colbert_results, cfg, req, srch>>
    /\ UNCHANGED indexVars

\* lines 335-338: top_k = limit * 3 if use_reranker else limit
search_limit == IF req.use_reranker THEN req.limit * 3 ELSE req.limit

\* lines 322-341: the hybrid retriever answers with the fused list
PipelineHybridSearch ==
    /\ call = "pipeline" /\ pc = "start"
    /\ fused_results' = SearchResult(dense_results, bm25_results, colbert_results,
                                     search_limit)
    /\ pc' = "retrieved"
    /\ UNCHANGED <<reranker, resp, answers>>
    /\ PipelineFrame

\* lines 343-371: the hybrid retriever raised, dense retrieval alone
PipelineDenseSearch ==
    /\ call = "pipeline" /\ pc = "start"
    /\ fused_results' = Take(QdrantHits(dense_results), search_limit)
    /\ pc' = "retrieved"
    /\ UNCHANGED <<reranker, resp, answers>>
    /\ PipelineFrame

\* lines 419-421: the embedding or the Qdrant search raised, return []
PipelineSearchRaises ==
    /\ call = "pipeline" /\ pc = "start"
    /\ fused_results' = <<>>
    /\ pc' = "done"
    /\ UNCHANGED <<reranker, resp, answers>>
    /\ PipelineFrame

\* line 374 false: results are returned as retrieved
PipelineReturn ==
    /\ call = "pipeline" /\ pc = "retrieved"
    /\ ~req.use_reranker \/ fused_results = <<>>
    /\ pc' = "done"
    /\ UNCHANGED <<fused_results, reranker, resp, answers>>
    /\ PipelineFrame

\* lines 374-415: create_advanced_reranker("balanced") and rerank, or on
\* ImportError the basic cross-encoder reranker of reranker.py, which
\* without sentence_transformers has no model and falls back; then the
\* conversion to dicts, or results[:limit] when the reranking raised
PipelineRerank ==
    /\ call = "pipeline" /\ pc = "retrieved"
    /\ req.use_reranker /\ fused_results # <<>>
    /\ IF ImportRaises(cfg.strategy, cfg.env)
       THEN /\ reranker' = Unused
            /\ resp' = Returned(Fallback(fused_results, req.limit), {})
            /\ answers' = [fast     |-> NotCalled(fused_results),
                           accurate |-> NotCalled(fused_results),
                           cross    |-> NotCalled(fused_results)]
       ELSE /\ reranker' = Construct(cfg)
            /\ \E fast \in (IF FastReady(Construct(cfg))
                            THEN Outcomes(fused_results, FastScores)
                            ELSE {NotCalled(fused_results)}),
                  cross \in (IF Construct(cfg).cross_encoder
                             THEN Outcomes(fused_results, CrossScores)
                             ELSE {NotCalled(fused_results)}) :
                  /\ resp' = rerank(Construct(cfg), req.query, fused_results, req.limit,
                                    fast, NotCalled(fused_results), cross)
                  /\ answers' = [fast     |-> fast,
                                 accurate |-> NotCalled(fused_results),
                                 cross    |-> cross]
    /\ fused_results' = IF resp'.raised THEN Take(fused_results, req.limit)
                        ELSE [i \in 1..Len(resp'.results) |-> ResultDict(resp'.results[i])]
    /\ pc' = "done"
    /\ PipelineFrame

NextPipeline ==
    \/ PipelineHybridSearch
    \/ PipelineDenseSearch
    \/ PipelineSearchRaises
    \/ PipelineReturn
    \/ PipelineRerank

SpecPipeline == InitPipeline /\ [][NextPipeline]_vars

(***************************************************************************)
(* All entry points.                                                       *)
(***************************************************************************)
Init ==
    \/ InitFuse \/ InitRerank \/ InitSearch \/ InitIndex \/ InitBoost \/ InitColbert
    \/ InitPipeline

Next ==
    \/ NextFuse \/ NextRerank \/ NextSearch \/ NextIndex \/ NextBoost \/ NextColbert
    \/ NextPipeline

Spec == Init /\ [][Next]_vars

(***************************************************************************)
(* Properties                                                              *)
(***************************************************************************)
\* C1: fuse loses no candidate and duplicates none: the chunk_ids of the
\* returned list are exactly the union of the chunk_ids of the three input
\* lists, and no chunk_id has two records.
FusionComplete ==
    (call = "fuse" /\ pc = "done") =>
        /\ Ids(fused_results) = Ids(dense_results) \cup Ids(bm25_results) \cup Ids(colbert_results)
        /\ \A i, j \in 1..Len(fused_results) :
               fused_results[i].chunk_id = fused_results[j].chunk_id => i = j

\* A fused call in which one id came from all three retrievers, one list
\* named an id twice, and some id was named by BM25 only.
FusionCompleteWitness ==
    /\ call = "fuse" /\ pc = "done"
    /\ Ids(dense_results) \cap Ids(bm25_results) \cap Ids(colbert_results) # {}
    /\ \E i, j \in 1..Len(dense_results) :
           i # j /\ dense_results[i].chunk_id = dense_results[j].chunk_id
    /\ Ids(bm25_results) \ (Ids(dense_results) \cup Ids(colbert_results)) # {}
    /\ Len(fused_results) >= 2

\* C2: with no rerank model available (fast, accurate and cross-encoder all
\* absent) rerank returns, for every strategy, the first min(top_k, n)
\* candidates in their input order, each with rerank_score = original_score,
\* and does not raise.
NoModel(r) == ~FastReady(r) /\ ~AccurateReady(r) /\ ~r.cross_encoder

DegradationIdempotent ==
    (call = "rerank" /\ pc = "done" /\ NoModel(reranker)) =>
        /\ ~resp.raised
        /\ Len(resp.results) = Min(req.top_k, Len(req.documents))
        /\ \A i \in 1..Len(resp.results) :
              /\ resp.results[i].chunk_id = req.documents[i].chunk_id
              /\ resp.results[i].rerank_score = resp.results[i].original_score

\* C3: for every strategy and candidate list, a rerank that returns gives
\* exactly min(top_k, len(candidates)) records.
TopKContract ==
    (call = "rerank" /\ pc = "done" /\ ~resp.raised) =>
        Len(resp.results) = Min(req.top_k, Len(req.documents))

\* A balanced rerank over three candidates with the fast model loaded and
\* top_k = 1, and so two candidates cut.
TopKContractWitness ==
    /\ call = "rerank" /\ pc = "done" /\ ~resp.raised
    /\ reranker.strategy = "balanced" /\ FastReady(reranker)
    /\ Len(req.documents) = 3 /\ req.top_k = 1
    /\ Len(resp.results) = 1

\* C4: a scorer call that raises during rerank never propagates out of
\* rerank, whatever the strategy.
ScorerExceptionContained ==
    (call = "rerank" /\ pc = "done") => ~resp.raised

\* C5: create_advanced_reranker never raises, whichever libraries or
\* weights are missing.
ConstructionNeverRaises ==
    call = "rerank" => pc # "ctor_raised"

\* C6: fuse([], [], []) is the empty list; rerank(query, [], top_k) is the
\* empty list for every strategy and calls no scorer; neither raises.
EmptyInputSafe ==
    /\ (/\ call = "fuse" /\ pc = "done"
        /\ dense_results = <<>> /\ bm25_results = <<>> /\ colbert_results = <<>>)
           => fused_results = <<>>
    /\ (call = "rerank" /\ pc = "done" /\ req.documents = <<>>)
           => (~resp.raised /\ resp.results = <<>> /\ resp.calls = {})

\* rerank has returned for an empty candidate list although the fast model
\* and the cross-encoder were both loaded.
EmptyInputSafeWitness ==
    /\ call = "rerank" /\ pc = "done"
    /\ req.documents = <<>>
    /\ FastReady(reranker) /\ reranker.cross_encoder
    /\ resp.results = <<>>

\* C7: search never raises, and whatever subset of the retrievers is
\* disabled or fails, its result is the fusion of the lists the other
\* retrievers answered (an empty list standing for each disabled or failed
\* one) cut to top_k; it is empty when every retriever is disabled or fails.
Contributed(who) ==
    IF who \in srch.finished \ srch.failed THEN srch.answers[who] ELSE <<>>

AllEnabled == srch.use_dense /\ srch.has_dense /\ srch.use_bm25 /\ srch.use_colbert

SearchSurvivesStall ==
    call = "search" => (pc = "done" \/ ENABLED NextSearch)

\* C10: a BM25 search that runs while index_documents rebuilds the index
\* answers from the old documents with the old index or from the new
\* documents with the new index, never from a mix.
OldRetriever == ixt.before
NewRetriever ==
    [ixt.before EXCEPT !.documents = ixt.documents,
                       !.bm25_index = IndexOver(ixt.documents)]

SearchSeesOldOrNew ==
    (/\ call = "index" /\ ixt.before.BM25Okapi /\ ixt.pc # "raised"
     /\ sxt.pc \in {"returned", "raised"}) =>
        /\ sxt.pc = "returned"
        /\ sxt.results \in {Bm25Search(OldRetriever, sxt.oracle, sxt.top_k).results,
                            Bm25Search(NewRetriever, sxt.oracle, sxt.top_k).results}

\* C11: moving one document to an earlier position of a single retriever's
\* list, the rest of the inputs unchanged, never decreases the rrf_score
\* fuse gives that document.
MoveEarlier(list, i, j) ==
    [p \in 1..Len(list) |->
        IF p < j \/ p > i THEN list[p]
        ELSE IF p = j THEN list[i] ELSE list[p - 1]]

RrfOf(fused, id) == fused[Position(fused, id)].rrf_score

FusionMonotone ==
    (call = "fuse" /\ pc = "done") =>
        /\ \A i \in 1..Len(dense_results) : \A j \in 1..(i - 1) :
              RrfOf(fuse(MoveEarlier(dense_results, i, j), bm25_results, colbert_results,
                         DefaultWeights), dense_results[i].chunk_id)
                 >= RrfOf(fused_results, dense_results[i].chunk_id)
        /\ \A i \in 1..Len(bm25_results) : \A j \in 1..(i - 1) :
              RrfOf(fuse(dense_results, MoveEarlier(bm25_results, i, j), colbert_results,
                         DefaultWeights), bm25_results[i].chunk_id)
                 >= RrfOf(fused_results, bm25_results[i].chunk_id)
        /\ \A i \in 1..Len(colbert_results) : \A j \in 1..(i - 1) :
              RrfOf(fuse(dense_results, bm25_results, MoveEarlier(colbert_results, i, j),
                         DefaultWeights), colbert_results[i].chunk_id)
                 >= RrfOf(fused_results, colbert_results[i].chunk_id)

\* A fused call whose BM25 list holds, at its last position, a document the
\* dense list names too, and moving it to the front strictly raises its score.
FusionMonotoneWitness ==
    /\ call = "fuse" /\ pc = "done"
    /\ Len(bm25_results) >= 3
    /\ bm25_results[3].chunk_id \in Ids(dense_results)
    /\ RrfOf(fuse(dense_results, MoveEarlier(bm25_results, 3, 1), colbert_results,
                  DefaultWeights), bm25_results[3].chunk_id)
          > RrfOf(fused_results, bm25_results[3].chunk_id)

\* C12: two fuse calls over the same chunk_id sequences and weights but
\* different raw scores give every chunk_id the same rrf_score and the same
\* output order.
AltScales == {2, 5}

AltRaw(list, field, s) ==
    [p \in 1..Len(list) |-> [list[p] EXCEPT ![field] = s * p]]

RawScoreIndependent ==
    (call = "fuse" /\ pc = "done") =>
        \A s \in AltScales :
            LET alt == fuse(AltRaw(dense_results, "similarity", s),
                            AltRaw(bm25_results, "bm25_score", s + 1),
                            AltRaw(colbert_results, "colbert_score", s + 2),
                            DefaultWeights)
            IN  /\ Len(alt) = Len(fused_results)
                /\ \A p \in 1..Len(alt) :
                      /\ alt[p].chunk_id = fused_results[p].chunk_id
                      /\ alt[p].rrf_score = fused_results[p].rrf_score

\* A fused call over non-empty lists on the larger raw scale, with the dense
\* list ranking at least two documents and two different rrf_scores.
RawScoreIndependentWitness ==
    /\ call = "fuse" /\ pc = "done"
    /\ Len(dense_results) >= 2 /\ bm25_results # <<>> /\ colbert_results # <<>>
    /\ dense_results[1].similarity >= 14
    /\ dense_results[1].chunk_id # dense_results[2].chunk_id
    /\ fused_results[1].rrf_score > fused_results[Len(fused_results)].rrf_score

\* C13: every chunk_id's rrf_score is the sum, over each (retriever, rank)
\* at which it appears, of weight / (60 + rank) with weights 0.4, 0.3, 0.3;
\* dense=[d1,d2,d3], bm25=[d3,d1], colbert=[] gives d1 = 0.4/61 + 0.3/62,
\* d3 = 0.4/63 + 0.3/61 and the order d1, d3, d2.
RECURSIVE RankSum(_, _, _, _)
RankSum(list, id, tenths, n) ==
    IF n = 0 THEN 0
    ELSE RankSum(list, id, tenths, n - 1)
         + (IF list[n].chunk_id = id THEN (tenths * RrfDen) \div (10 * (60 + n)) ELSE 0)

IdSeq(list) == [p \in 1..Len(list) |-> list[p].chunk_id]

RrfExact ==
    (call = "fuse" /\ pc = "done") =>
        /\ \A n \in 1..MaxRank : \A tenths \in {3, 4} :
              (tenths * RrfDen) % (10 * (60 + n)) = 0
        /\ \A p \in 1..Len(fused_results) :
              fused_results[p].rrf_score =
                  RankSum(dense_results, fused_results[p].chunk_id, 4, Len(dense_results))
                + RankSum(bm25_results, fused_results[p].chunk_id, 3, Len(bm25_results))
                + RankSum(colbert_results, fused_results[p].chunk_id, 3,
                          Len(colbert_results))
        /\ (/\ IdSeq(dense_results) = <<"d1", "d2", "d3">>
            /\ IdSeq(bm25_results) = <<"d3", "d1">>
            /\ colbert_results = <<>>) =>
              /\ IdSeq(fused_results) = <<"d1", "d3", "d2">>
              /\ Frac(fused_results[1].rrf_score, RrfDen) = FAdd(Frac(4, 610), Frac(3, 620))
              /\ Frac(fused_results[2].rrf_score, RrfDen) = FAdd(Frac(4, 630), Frac(3, 610))

\* The scenario itself has been fused.
RrfExactWitness ==
    /\ call = "fuse" /\ pc = "done"
    /\ IdSeq(dense_results) = <<"d1", "d2", "d3">>
    /\ IdSeq(bm25_results) = <<"d3", "d1">>
    /\ colbert_results = <<>>
    /\ Len(fused_results) = 3

\* C14: for every strategy the list rerank returns is sorted in
\* non-increasing order of rerank_score.
RerankSorted ==
    (call = "rerank" /\ pc = "done" /\ ~resp.raised) =>
        \A i, j \in 1..Len(resp.results) :
            i < j => FLeq(resp.results[j].rerank_score, resp.results[i].rerank_score)

\* An ensemble rerank whose first result was not the first candidate and
\* scores strictly higher than its second result.
RerankSortedWitness ==
    /\ call = "rerank" /\ pc = "done" /\ ~resp.raised
    /\ reranker.strategy = "ensemble"
    /\ Len(resp.results) = 2
    /\ resp.results[1].chunk_id # req.documents[1].chunk_id
    /\ resp.results[1].rerank_score # resp.results[2].rerank_score

\* C15: calculate_boost answers a value between 0.0 and 1.0 for every
\* (query, content) pair, an empty query or an empty content included.
KeywordScoreBounded ==
    (call = "boost" /\ pc = "done") => (FLeq(Zero, resp) /\ FLeq(resp, One))

\* The phrase matches and the word overlap add up to more than 1.0 and the
\* score is cut to 1.0.
KeywordScoreBoundedWitness ==
    /\ call = "boost" /\ pc = "done"
    /\ Cardinality(KeywordsIn(req.query) \cap KeywordsIn(req.content)) >= 6
    /\ Tokens(req.query) \subseteq Tokens(req.content)
    /\ resp = One

\* C16: rerank with an empty query and a non-empty candidate list returns
\* the empty list, calls no scorer and does not raise.
EmptyQueryShortCircuits ==
    (call = "rerank" /\ pc = "done" /\ req.query = "" /\ req.documents # <<>>) =>
        (~resp.raised /\ resp.results = <<>> /\ resp.calls = {})

\* C17: BM25Retriever.search returns the empty list and does not raise
\* whenever no index has been built: when index_documents was never called
\* and when the rank_bm25 library is unavailable.
NoIndexSearchEmpty ==
    (/\ call = "index"
     /\ sxt.pc \in {"returned", "raised"}
     /\ \/ ~ixt.before.BM25Okapi
        \/ ixt.pc = "start" /\ ~bm25.bm25_index.built) =>
        (sxt.pc = "returned" /\ sxt.results = <<>>)

\* C18: whenever index_documents or search of the ColBERT retriever fails
\* (no model, or the underlying call raised), the call returns an empty
\* result without raising and the retriever is afterwards not indexed.
ColbertFailureMarksNotIndexed ==
    (call = "colbert" /\ resp.failed) =>
        (~resp.raised /\ resp.results = <<>> /\ ~colbert_retriever.indexed)

\* C19: fuse, BM25Retriever.search and rerank leave their inputs as they
\* were: a fuse step keeps the three input lists, a rerank step keeps the
\* request's documents, and a step of search keeps the indexed documents (no
\* record gains a score), the scores going to the new result records only.
NoInputMutation ==
    [][/\ (call = "fuse" \/ (call = "search" /\ pc = "fuse")) =>
              /\ dense_results' = dense_results
              /\ bm25_results' = bm25_results
              /\ colbert_results' = colbert_results
       /\ call = "rerank" => req' = req
       /\ (call = "index" /\ sxt' # sxt) => bm25.documents' = bm25.documents]_vars

NoInputMutationWitness ==
    /\ call = "index"
    /\ sxt.pc = "returned"
    /\ sxt.results # <<>>
    /\ \A i \in 1..Len(sxt.results) : sxt.results[i].bm25_score > 0
    /\ ixt.pc = "start"
    /\ bm25 = ixt.before
    /\ \A i \in 1..Len(bm25.documents) :
          bm25.documents[i] = Document(bm25.documents[i].chunk_id)

\* the scenario of C20: d1, d2, d3 in this order, the blood-pressure query,
\* strategy speed, top_k = 2
SpeedScenario ==
    /\ call = "rerank"
    /\ cfg.strategy = "speed"
    /\ req = [query     |-> "What is the patient's blood pressure?",
              documents |-> <<Candidate("d1"), Candidate("d2"), Candidate("d3")>>,
              top_k     |-> 2]

\* d1 is in the output and d3 is absent or placed after d1
D1AboveD3(results) ==
    \E i \in 1..Len(results) :
        /\ results[i].chunk_id = "d1"
        /\ \A j \in 1..Len(results) : results[j].chunk_id = "d3" => i < j

\* C20 as stated: in the scenario, rerank ranks d1 above d3.
SpeedRanksD1AboveD3 ==
    (SpeedScenario /\ pc = "done") => D1AboveD3(resp.results)

\* C20 amended: in the scenario, rerank ranks d1 above d3 unless the fast
\* model was loaded, answered, and scored d3 strictly above d1; with the
\* fast model missing or raising the output is d1, d2 in the input order.
SpeedRanksD1UnlessScoredBelow ==
    [][(SpeedScenario /\ pc = "constructed" /\ pc' = "done") =>
          \/ /\ D1AboveD3(resp'.results)
             /\ (\A i \in 1..Len(resp'.results) :
                     ~Truthy(resp'.results[i].flashrank_score))
                   => IdSeq(resp'.results) = <<"d1", "d2">>
          \/ /\ FastCalled
             /\ \E fast \in Outcomes(req.documents, FastScores) :
                   /\ ~fast.raises
                   /\ fast.score["d3"] > fast.score["d1"]
                   /\ resp' = rerank(reranker, req.query, req.documents, req.top_k, fast,
                                     NotCalled(req.documents), NotCalled(req.documents))]_vars

\* the scenario has returned d1, d2 from the fallback, d1 carrying its
\* keyword score, although d3 has the highest similarity
SpeedRanksD1UnlessScoredBelowWitness ==
    /\ SpeedScenario /\ pc = "done"
    /\ ~FastReady(reranker)
    /\ reranker.keyword_booster
    /\ IdSeq(resp.results) = <<"d1", "d2">>
    /\ Truthy(resp.results[1].keyword_score)
    /\ FLeq(resp.results[1].original_score, SimilarityOf("d3"))

\* an Optional[float] score field that holds a value, 0.0 included
Populated(x) == x # NoScore

\* the signals of a result whose field holds a value, with the given weights
\* (in hundredths) for fast, accurate, cross-encoder and keyword
PopulatedParts(c, wf, wa, wc, wk) ==
       (IF Populated(c.flashrank_score)
        THEN <<<<c.flashrank_score, Frac(wf, 100)>>>> ELSE <<>>)
    \o (IF wa > 0 /\ Populated(c.mxbai_score)
        THEN <<<<c.mxbai_score, Frac(wa, 100)>>>> ELSE <<>>)
    \o (IF Populated(c.cross_encoder_score)
        THEN <<<<c.cross_encoder_score, Frac(wc, 100)>>>> ELSE <<>>)
    \o (IF Populated(c.keyword_score)
        THEN <<<<c.keyword_score, Frac(wk, 100)>>>> ELSE <<>>)

WeightedSum(parts) == FSum([i \in 1..Len(parts) |-> FMul(parts[i][1], parts[i][2])])
WeightSum(parts)   == FSum([i \in 1..Len(parts) |-> parts[i][2]])

\* C21: in the ensemble strategy each result's rerank_score is the weighted
\* average, over the signals whose field is populated (whatever the value),
\* of fast 0.25, accurate 0.40, cross-encoder 0.25 and keyword 0.10; it is
\* original_score only when no field is populated.
EnsembleAveragesPopulated ==
    (call = "rerank" /\ pc = "done" /\ reranker.strategy = "ensemble" /\ ~resp.raised) =>
        \A i \in 1..Len(resp.results) :
            LET c     == resp.results[i]
                parts == PopulatedParts(c, 25, 40, 25, 10)
            IN  c.rerank_score =
                    IF parts # <<>> THEN FDiv(WeightedSum(parts), WeightSum(parts))
                    ELSE c.original_score

\* C22: in the balanced strategy each result's rerank_score is the sum of
\* 0.4 * fast, 0.4 * cross-encoder and 0.2 * keyword over the scorers that
\* produced a value for it, without renormalisation; it is original_score
\* only when no scorer produced a value.
BalancedSumsProduced ==
    (call = "rerank" /\ pc = "done" /\ reranker.strategy = "balanced" /\ ~resp.raised) =>
        \A i \in 1..Len(resp.results) :
            LET c     == resp.results[i]
                parts == PopulatedParts(c, 40, 0, 40, 20)
            IN  c.rerank_score =
                    IF parts # <<>> THEN WeightedSum(parts) ELSE c.original_score

\* base * (1 + factor * keyword_score)
Boosted(base, keyword_score, factor) == FMul(base, FAdd(One, FMul(keyword_score, factor)))

\* a speed or accurate rerank with keyword boosting has returned
BoostedCall(strategy) ==
    /\ call = "rerank" /\ pc = "done" /\ ~resp.raised
    /\ reranker.strategy = strategy
    /\ reranker.keyword_booster

BaseScore(c) ==
    IF Populated(c.flashrank_score) THEN c.flashrank_score
    ELSE IF Populated(c.mxbai_score) THEN c.mxbai_score
    ELSE IF Populated(c.cross_encoder_score) THEN c.cross_encoder_score
    ELSE c.original_score

IndexOf(documents, id) ==
    IF \E p \in 1..Len(documents) : documents[p].chunk_id = id
    THEN CHOOSE p \in 1..Len(documents) : documents[p].chunk_id = id
    ELSE 0

\* C24: BM25Retriever.search returns at most top_k documents, each with a
\* strictly positive score, in descending score order, documents of equal
\* score in their original index order.
Bm25SearchStableOrder ==
    (call = "index" /\ sxt.pc = "returned" /\ ixt.pc = "start") =>
        /\ Len(sxt.results) <= sxt.top_k
        /\ \A i \in 1..Len(sxt.results) : sxt.results[i].bm25_score > 0
        /\ \A i, j \in 1..Len(sxt.results) :
              i < j =>
                 /\ sxt.results[i].bm25_score >= sxt.results[j].bm25_score
                 /\ sxt.results[i].bm25_score = sxt.results[j].bm25_score =>
                        IndexOf(bm25.documents, sxt.results[i].chunk_id)
                            < IndexOf(bm25.documents, sxt.results[j].chunk_id)

\* the fused score of the candidate with this chunk_id, as a fraction
FusedScore(candidates, id) == Frac(candidates[Position(candidates, id)].rrf_score, RrfDen)

\* C25: when the fused list of the hybrid retriever is handed to the
\* reranker, each RerankResult.original_score is that candidate's fused
\* score (its rrf_score).
OriginalScoreIsFusedScore ==
    [][(/\ call = "pipeline" /\ pc = "retrieved" /\ pc' = "done"
        /\ req.use_reranker /\ fused_results # <<>>
        /\ "rrf_score" \in DOMAIN fused_results[1]) =>
           (/\ ~resp'.raised
            /\ \A i \in 1..Len(resp'.results) :
                  resp'.results[i].original_score =
                      FusedScore(fused_results, resp'.results[i].chunk_id))]_vars

\* the orders in which the three loops of fuse could run
MergeOrders ==
    {o \in [1..3 -> Retrievers] : \A i, j \in 1..3 : o[i] = o[j] => i = j}

LoopOf(who, all, dense, bm25l, colbert, weights) ==
    CASE who = "dense" -> DenseLoop(all, dense, Len(dense), weights)
      [] who = "bm25"  -> Bm25Loop(all, bm25l, Len(bm25l), weights)
      [] OTHER         -> ColbertLoop(all, colbert, Len(colbert), weights)

\* fuse with its three loops run in the given order
fuseInOrder(order, dense, bm25l, colbert, weights) ==
    LET a1 == LoopOf(order[1], <<>>, dense, bm25l, colbert, weights)
        a2 == LoopOf(order[2], a1, dense, bm25l, colbert, weights)
        a3 == LoopOf(order[3], a2, dense, bm25l, colbert, weights)
    IN  SortByRrf(a3, Len(a3))

Records(fused) == {fused[i] : i \in 1..Len(fused)}

\* the fields of a fused record that every loop writes on every sighting
MergedFields(fused) ==
    {[chunk_id      |-> fused[i].chunk_id,
      content       |-> fused[i].content,
      rrf_score     |-> fused[i].rrf_score,
      bm25_score    |-> fused[i].bm25_score,
      bm25_rank     |-> fused[i].bm25_rank,
      colbert_score |-> fused[i].colbert_score,
      colbert_rank  |-> fused[i].colbert_rank] : i \in 1..Len(fused)}

FlashRankScoreAligned ==
    (/\ call = "rerank" /\ pc = "done" /\ ~resp.raised
     /\ reranker.strategy = "ensemble"
     /\ "fast" \in resp.calls /\ ~answers.fast.raises) =>
        \A i \in 1..Len(resp.results) :
            resp.results[i].flashrank_score =
                Frac(answers.fast.score[resp.results[i].chunk_id], 1)

\* the final score of every candidate under the strategy's own combination
\* rule: the call repeated with the same answers of the scorers and no cut
FullRanking ==
    rerank(reranker, req.query, req.documents, Len(req.documents),
           answers.fast, answers.accurate, answers.cross).results

FinalScore(id) == FullRanking[Position(FullRanking, id)].rerank_score

\* no candidate left out has a final score strictly greater than the
\* rerank_score of a returned result
NoneLeftOutIsBetter ==
    \A id \in Ids(req.documents) \ Ids(resp.results) :
        \A i \in 1..Len(resp.results) :
            FLeq(FinalScore(id), resp.results[i].rerank_score)

FirstStageWidth ==
    CASE reranker.strategy = "speed"    -> req.top_k
      [] reranker.strategy = "ensemble" -> Len(req.documents)
      [] OTHER                          -> 2 * req.top_k

RankFieldTerm(weight, rank) == IF rank = None THEN 0 ELSE RrfTerm(weight, rank)

\* C29: every record fuse returns is self-consistent: its rrf_score is the
\* sum, over the retrievers whose rank field is set, of weight / (k + rank
\* field), also when an input list holds a chunk_id more than once.
FusedRecordConsistent ==
    (call = "fuse" /\ pc = "done") =>
        \A i \in 1..Len(fused_results) :
            fused_results[i].rrf_score =
                  RankFieldTerm(DefaultWeights.dense, fused_results[i].dense_rank)
                + RankFieldTerm(DefaultWeights.bm25, fused_results[i].bm25_rank)
                + RankFieldTerm(DefaultWeights.colbert, fused_results[i].colbert_rank)

\* C30: when index_documents raises while building the new index, the
\* retriever is as it was before the call: documents and bm25_index are
\* still the previous matching pair.
IndexFailureKeepsState ==
    (call = "index" /\ ixt.pc = "raised") =>
        /\ bm25 = ixt.before
        /\ bm25.bm25_index.built => bm25.bm25_index.corpus = bm25.documents
====
